---- MODULE Spec2Model ----
(***************************************************************************)
(* Model of the form filler: ImageFormFiller (src/ImageFormFiller.py) and  *)
(* the batch loop that drives it (src/app.py).                             *)
(*                                                                         *)
(* Strings are sequences of one-character strings, so that split, strip,   *)
(* lower and replace are computed as Python computes them.  An image is    *)
(* its size, its mode and the ordered list of drawing commands applied on  *)
(* top of the uploaded raster: two images are pixel-identical when these   *)
(* agree.                                                                  *)
(***************************************************************************)
EXTENDS Integers, Sequences, FiniteSets, TLC

VARIABLES
    template_image,   \* self.template_image
    mapping_data,     \* self.mapping_data["fields"], in insertion order
    dpi,              \* self.dpi
    page_width_pts,   \* self.page_width_pts, an exact fraction
    page_height_pts,  \* self.page_height_pts, an exact fraction
    pil_font,         \* self.pil_font: the metrics of the loaded font
    layout,           \* the last _draw_text_on_image call: arguments and result
    call,             \* the last fill_and_save_pdf call: arguments and result
    calls,            \* number of fill_and_save_pdf calls made on the filler
    disk,             \* paths of the files written by fill_and_save_pdf
    dirs,             \* the directories that exist and can be written to
    batch             \* the Start Processing run: data frame, position, report

vars == <<template_image, mapping_data, dpi, page_width_pts, page_height_pts,
          pil_font, layout, call, calls, disk, dirs, batch>>

----------------------------------------------------------------------------
(* Python values: None, str, float('nan') (an empty spreadsheet cell), int *)

None == [t |-> "None"]

NaN == [t |-> "float"]

PyStr(s) == [t |-> "str", s |-> s]

PyInt(n) == [t |-> "int", n |-> n]

\* bool(value)
Truthy(v) ==
    CASE v.t = "None" -> FALSE
      [] v.t = "str" -> v.s # <<>>
      [] v.t = "int" -> v.n # 0
      [] OTHER -> TRUE

Digits == <<"0", "1", "2", "3", "4", "5", "6", "7", "8", "9">>

\* str(n) of a non-negative int
RECURSIVE IntStr(_)
IntStr(n) == IF n < 10 THEN <<Digits[n + 1]>> ELSE Append(IntStr(n \div 10), Digits[(n % 10) + 1])

\* str(value)
Str(v) ==
    CASE v.t = "None" -> <<"N", "o", "n", "e">>
      [] v.t = "float" -> <<"n", "a", "n">>
      [] v.t = "int" -> IntStr(v.n)
      [] OTHER -> v.s

----------------------------------------------------------------------------
(* Bounds of the model *)

MaxWords == 3
MaxCalls == 2
MaxRows == 2
MaxBoxW == 5
MaxBoxH == 7

----------------------------------------------------------------------------
(* Python str operations on character sequences *)

\* str.lower() on one character
LowerChar(c) ==
    CASE c = "A" -> "a"
      [] c = "B" -> "b"
      [] c = "C" -> "c"
      [] c = "D" -> "d"
      [] c = "E" -> "e"
      [] c = "F" -> "f"
      [] c = "G" -> "g"
      [] c = "H" -> "h"
      [] c = "I" -> "i"
      [] c = "J" -> "j"
      [] c = "K" -> "k"
      [] c = "L" -> "l"
      [] c = "M" -> "m"
      [] c = "N" -> "n"
      [] c = "O" -> "o"
      [] c = "P" -> "p"
      [] c = "Q" -> "q"
      [] c = "R" -> "r"
      [] c = "S" -> "s"
      [] c = "T" -> "t"
      [] c = "U" -> "u"
      [] c = "V" -> "v"
      [] c = "W" -> "w"
      [] c = "X" -> "x"
      [] c = "Y" -> "y"
      [] c = "Z" -> "z"
      [] OTHER -> c

\* str.lower()
Lower(s) == [i \in 1..Len(s) |-> LowerChar(s[i])]

\* str.replace(old, new) for single characters
Replace(s, old, new) == [i \in 1..Len(s) |-> IF s[i] = old THEN new ELSE s[i]]

\* str.strip(): drop leading and trailing blanks
RECURSIVE LStrip(_)
LStrip(s) == IF s # <<>> /\ Head(s) = " " THEN LStrip(Tail(s)) ELSE s

RECURSIVE RStrip(_)
RStrip(s) ==
    IF s # <<>> /\ s[Len(s)] = " " THEN RStrip(SubSeq(s, 1, Len(s) - 1)) ELSE s

Strip(s) == RStrip(LStrip(s))

\* str.split(' '): the pieces between single blanks, empty pieces kept
RECURSIVE SplitFrom(_, _, _)
SplitFrom(s, done, cur) ==
    IF s = <<>> THEN Append(done, cur)
    ELSE IF Head(s) = " " THEN SplitFrom(Tail(s), Append(done, cur), <<>>)
    ELSE SplitFrom(Tail(s), done, Append(cur, Head(s)))

Split(s) == SplitFrom(s, <<>>, <<>>)

\* needle in hay (Python's in on two strings)
IsSubstr(needle, hay) ==
    \E i \in 0..(Len(hay) - Len(needle)) : SubSeq(hay, i + 1, i + Len(needle)) = needle

\* ' '.join(words)
RECURSIVE Join(_)
Join(words) ==
    IF words = <<>> THEN <<>>
    ELSE IF Len(words) = 1 THEN words[1]
    ELSE words[1] \o <<" ">> \o Join(Tail(words))

----------------------------------------------------------------------------
(* Font measurement: draw.textbbox((0,0), text, font) *)

\* the fonts ImageFont.truetype / ImageFont.load_default can give: a glyph
\* advance and an ink height
FontSet == { [char_w |-> 1, height |-> 2], [char_w |-> 2, height |-> 3] }

\* text_bbox[2] - text_bbox[0]
TextWidth(font, text) == Len(text) * font.char_w

\* text_bbox[3] - text_bbox[1]
TextHeight(font, text) == IF text = <<>> THEN 0 ELSE font.height

----------------------------------------------------------------------------
(* _draw_text_on_image *)

\* the test of the wrap loop: does the candidate line fit the box width
LineFitsWidthWide(test_width, w) == test_width <= w + 1

LineFitsWidth(test_width, w) == test_width <= w

\* the greedy word-wrap loop
RECURSIVE WrapLoop(_, _, _, _, _)
WrapLoop(font, words, w, lines, current_line) ==
    IF words = <<>> THEN Append(lines, current_line)
    ELSE LET word == Head(words)
             test_line == Strip(current_line \o <<" ">> \o word)
             test_width == TextWidth(font, test_line)
         IN  IF LineFitsWidth(test_width, w)
             THEN WrapLoop(font, Tail(words), w, lines, test_line)
             ELSE WrapLoop(font, Tail(words), w, Append(lines, current_line), word)

WrapLines(font, text, w) == WrapLoop(font, Split(text), w, <<>>, <<>>)

\* top of the vertically centred block of n lines
StartY(y, h, n, line_height) == y + ((h - n * line_height) \div 2)

\* the test that decides whether a wrapped line is drawn
LineFitsBox(draw_y_line, line_height, y, h) == draw_y_line + line_height <= y + h

\* one draw.text command
TextOp(dx, dy, text) == [kind |-> "text", x |-> dx, y |-> dy, text |-> text]

\* the draw.text commands of the wrapped branch, in order
RECURSIVE DrawLines(_, _, _, _, _, _, _, _, _)
DrawLines(font, lines, i, x, y, w, h, start_y, line_height) ==
    IF i > Len(lines) THEN <<>>
    ELSE LET line == lines[i]
             line_width == TextWidth(font, line)
             draw_x_line == x + ((w - line_width) \div 2)
             draw_y_line == start_y + (i - 1) * line_height
             rest == DrawLines(font, lines, i + 1, x, y, w, h, start_y, line_height)
         IN  IF LineFitsBox(draw_y_line, line_height, y, h)
             THEN <<TextOp(draw_x_line, draw_y_line, line)>> \o rest
             ELSE rest

\* left edge of a value that fits on one line: left-aligned at the box
SingleLineXLeft(x, w, text_width) == x

\* left edge of a value that fits on one line: centred in the box
SingleLineX(x, w, text_width) == x + ((w - text_width) \div 2)

\* the whole method: what it computes and the draw.text commands it issues
DrawTextOnImage(font, text, x, y, w, h) ==
    LET text_width == TextWidth(font, text)
        text_height == TextHeight(font, text)
        draw_y == y + ((h - text_height) \div 2)
    IN  IF text_width > w
        THEN LET lines == WrapLines(font, text, w)
                 line_height == text_height
                 start_y == StartY(y, h, Len(lines), line_height)
             IN  [wrapped |-> TRUE, lines |-> lines, line_height |-> line_height,
                  start_y |-> start_y,
                  ops |-> DrawLines(font, lines, 1, x, y, w, h, start_y, line_height)]
        ELSE LET draw_x == SingleLineX(x, w, text_width)
             IN  [wrapped |-> FALSE, lines |-> <<text>>, line_height |-> text_height,
                  start_y |-> draw_y,
                  ops |-> <<TextOp(draw_x, draw_y, text)>>]

----------------------------------------------------------------------------
(* Inputs of the text layout *)

WordSet == { <<>>, <<"a">>, <<"b", "b">>, <<"c", "c", "c", "c">> }

WordSeqs == UNION { [1..n -> WordSet] : n \in 1..MaxWords }

\* the values _draw_text_on_image is called with: never the empty string
TextSet == { Join(ws) : ws \in WordSeqs } \ { <<>> }

BoxXSet == {0, 3}

BoxYSet == {2}

----------------------------------------------------------------------------
(* Exact fractions, for the page size in points *)

RECURSIVE GCD(_, _)
GCD(a, b) == IF b = 0 THEN a ELSE GCD(b, a % b)

Frac(n, d) == [num |-> n \div GCD(n, d), den |-> d \div GCD(n, d)]

FracMul(f, k) == Frac(f.num * k, f.den)

\* reportlab.lib.units.inch
inch == 72

----------------------------------------------------------------------------
(* Images *)

\* what two images are compared by: size, mode and content
Pixels(img) == [width |-> img.width, height |-> img.height, mode |-> img.mode,
                ops |-> img.ops]

\* the image itself instead of a copy of it
CopyAlias(img) == img

\* an image created blank instead of copied from the template
CopyBlank(img) == [img EXCEPT !.obj = "copy", !.ops = <<[kind |-> "fill"]>>]

\* Image.copy(): a new image object with the same pixels
Copy(img) == [img EXCEPT !.obj = "copy"]

\* Image.convert('RGB'): a new image object in mode RGB
Convert(img) == [img EXCEPT !.obj = "converted", !.mode = "RGB"]

\* drawing on an image object changes every reference to that object
AfterDraw(ref, target) == IF ref.obj = target.obj THEN target ELSE ref

----------------------------------------------------------------------------
(* The files fill_and_save_pdf reads: the photo paths and what they hold *)

\* os.path.join(folder, name)
PathJoin(folder, name) == folder \o <<"/">> \o name

\* the photo files, in the order os.walk lists them: an image, a file that is
\* no image, an image file cut short, and a file that is no photo by its name
PhotoFiles ==
    << [root |-> <<"u">>, file |-> <<"7", ".", "t", "x", "t">>, kind |-> "not_image",
        width |-> 0, height |-> 0],
       [root |-> <<"u">>, file |-> <<"7", ".", "j", "p", "g">>, kind |-> "image",
        width |-> 3, height |-> 4],
       [root |-> <<"u">>, file |-> <<"c", ".", "P", "N", "G">>, kind |-> "not_image",
        width |-> 0, height |-> 0],
       [root |-> <<"v">>, file |-> <<"a", " ", "b", ".", "j", "p", "e", "g">>, kind |-> "truncated",
        width |-> 4, height |-> 3] >>

OkPhoto == PathJoin(<<"u">>, <<"7", ".", "j", "p", "g">>)

BadPhoto == PathJoin(<<"u">>, <<"c", ".", "P", "N", "G">>)

CutPhoto == PathJoin(<<"v">>, <<"a", " ", "b", ".", "j", "p", "e", "g">>)

GonePhoto == PathJoin(<<"u">>, <<"9", ".", "j", "p", "g">>)

PhotoEntry(p) ==
    PhotoFiles[CHOOSE i \in 1..Len(PhotoFiles) : PathJoin(PhotoFiles[i].root, PhotoFiles[i].file) = p]

\* os.path.exists(photo_path)
PathExists(p) ==
    \E i \in 1..Len(PhotoFiles) : PathJoin(PhotoFiles[i].root, PhotoFiles[i].file) = p

\* Image.open(photo_path) raises on a file that is no image
OpenRaises(p) == PhotoEntry(p).kind = "not_image"

\* photo.resize((w, h), LANCZOS) decodes the file and raises on a truncated one
ResizeRaises(p) == PhotoEntry(p).kind = "truncated"

\* filled_image.paste(photo, (x, y)) of a photo of w x h pixels
PasteOp(p, x, y, w, h) == [kind |-> "paste", x |-> x, y |-> y, w |-> w, h |-> h, photo |-> p]

\* the output directory
OutDir == <<"o", "u", "t">>

----------------------------------------------------------------------------
(* fill_and_save_pdf *)

\* key.lower().replace("_", " ")
Normalize(s) == Replace(Lower(s), "_", " ")

PhotoName == <<"p", "h", "o", "t", "o">>

\* the lookup loop without its break: the last matching key wins
RECURSIVE FindValueLast(_, _)
FindValueLast(candidate_data, field_name) ==
    IF candidate_data = <<>> THEN None
    ELSE LET entry == candidate_data[Len(candidate_data)]
         IN  IF Normalize(entry.key) = Normalize(field_name)
             THEN PyStr(Str(entry.value))
             ELSE FindValueLast(SubSeq(candidate_data, 1, Len(candidate_data) - 1), field_name)

\* the lookup loop over candidate_data.items(): field_value, or None
RECURSIVE FindValue(_, _)
FindValue(candidate_data, field_name) ==
    IF candidate_data = <<>> THEN None
    ELSE LET entry == Head(candidate_data)
         IN  IF Normalize(entry.key) = Normalize(field_name)
             THEN PyStr(Str(entry.value))
             ELSE FindValue(Tail(candidate_data), field_name)

\* a resize that keeps the photo's aspect ratio and fits it into (w, h)
ResizeKeepAspect(photo, w, h) ==
    IF photo.width * h <= photo.height * w
    THEN [width |-> (photo.width * h) \div photo.height, height |-> h]
    ELSE [width |-> w, height |-> (photo.height * w) \div photo.width]

\* photo.resize((w, h), LANCZOS): the size of the resized photo
Resize(photo, w, h) == [width |-> w, height |-> h]

\* the try block of the photo branch: the paste, or nothing when it raises
PlacePhoto(field, p) ==
    IF OpenRaises(p) \/ ResizeRaises(p) THEN <<>>
    ELSE LET photo == Resize(PhotoEntry(p), field.w, field.h)
         IN  <<PasteOp(p, field.x, field.y, photo.width, photo.height)>>

\* the condition of the photo branch
IsPhotoBranch(field, photo_path) ==
    /\ Lower(field.name) = PhotoName
    /\ Truthy(photo_path)
    /\ PathExists(photo_path.s)

\* the body of the loop over the fields: the drawing commands for one field
FieldOps(font, field, candidate_data, photo_path) ==
    IF IsPhotoBranch(field, photo_path)
    THEN PlacePhoto(field, photo_path.s)
    ELSE LET field_value == FindValue(candidate_data, field.name)
         IN  IF Truthy(field_value)
             THEN DrawTextOnImage(font, field_value.s, field.x, field.y, field.w, field.h).ops
             ELSE <<>>

\* the loop over self.mapping_data["fields"].items(): per field, its commands
RenderFields(font, fields, candidate_data, photo_path) ==
    [i \in 1..Len(fields) |-> FieldOps(font, fields[i], candidate_data, photo_path)]

RECURSIVE Flatten(_)
Flatten(seqs) == IF seqs = <<>> THEN <<>> ELSE Head(seqs) \o Flatten(Tail(seqs))

\* the names bound in the module namespace of ImageFormFiller.py
ModuleGlobals == {"os", "Image", "ImageDraw", "ImageFont", "canvas", "A4", "letter",
                  "inch", "ImageReader", "black", "ImageFormFiller"}

FilledSuffix == <<"_", "f", "i", "l", "l", "e", "d", ".", "p", "d", "f">>

\* f"{candidate_srno}_{candidate_name.replace(' ', '_')}_filled.pdf"
OutputFilename(candidate_srno, candidate_name) ==
    candidate_srno \o <<"_">> \o Replace(candidate_name, " ", "_") \o FilledSuffix

\* the canvas: one page of the given size with the image drawn on it
PdfPage(pw, ph, img) ==
    [pagesize |-> <<pw, ph>>,
     image |-> [x |-> 0, y |-> 0, width |-> pw, height |-> ph, pixels |-> Pixels(img)]]

\* the whole method on a filler with the given fields
FillAndSavePdf(self, existing, output_folder, candidate_data, candidate_srno, candidate_name, photo_path) ==
    LET target == Copy(self.template_image)
        field_ops == RenderFields(self.pil_font, self.mapping_data, candidate_data, photo_path)
        filled_image == [target EXCEPT !.ops = target.ops \o Flatten(field_ops)]
        output_pdf_path == PathJoin(output_folder, OutputFilename(candidate_srno, candidate_name))
        drawn == [filled_image |-> filled_image, field_ops |-> field_ops]
    IN  IF "BytesIO" \notin ModuleGlobals
        THEN drawn @@ [outcome |-> "raised", exception |-> "NameError",
                       result |-> None, written |-> {}, pdf |-> None]
        ELSE IF output_folder \notin existing
        THEN drawn @@ [outcome |-> "raised", exception |-> "OSError",
                       result |-> None, written |-> {}, pdf |-> None]
        ELSE drawn @@ [outcome |-> "returned", exception |-> "",
                       result |-> PyStr(output_pdf_path), written |-> {output_pdf_path},
                       pdf |-> PdfPage(self.page_width_pts, self.page_height_pts, filled_image)]

----------------------------------------------------------------------------
(* __init__ *)

\* the images handed to the constructor
UploadSet == { [obj |-> "upload", width |-> 4, height |-> 3, mode |-> "RGB", ops |-> <<>>],
               [obj |-> "upload", width |-> 2480, height |-> 3508, mode |-> "RGBA", ops |-> <<>>] }

\* the fields of the filler after construction
Construct(template_arg, mapping_arg, font) ==
    LET img == IF template_arg.mode # "RGB" THEN Convert(template_arg) ELSE template_arg
    IN  [template_image |-> img,
         mapping_data |-> mapping_arg,
         dpi |-> 300,
         page_width_pts |-> FracMul(Frac(img.width, 300), inch),
         page_height_pts |-> FracMul(Frac(img.height, 300), inch),
         pil_font |-> font]

\* the filler object
Self == [template_image |-> template_image, mapping_data |-> mapping_data, dpi |-> dpi,
         page_width_pts |-> page_width_pts, page_height_pts |-> page_height_pts,
         pil_font |-> pil_font]

----------------------------------------------------------------------------
(* Inputs of fill_and_save_pdf *)

Field(name, x, y, w, h) == [name |-> name, x |-> x, y |-> y, w |-> w, h |-> h]

FieldPhoto == <<"P", "h", "o", "t", "o">>

FieldDob == <<"D", "o", "b">>

FieldNm == <<"N", "_", "m">>

\* mapping_data["fields"]: the fields in insertion order
MappingSet == { <<>>,
                <<Field(FieldPhoto, 0, 0, 2, 2), Field(FieldDob, 0, 2, 24, 4)>>,
                <<Field(FieldNm, 1, 1, 3, 5), Field(PhotoName, 2, 0, 6, 3)>>,
                <<Field(FieldDob, 0, 0, 4, 7), Field(FieldNm, 0, 3, 8, 2)>> }

KeySet == { <<"D", "O", "B">>, <<"d", "o", "b">>, <<"n", " ", "m">>, <<"N", "_", "M">>,
            <<"p", "h", "o", "t", "o">> }

IsoDate == <<"2", "0", "2", "4", "-", "0", "3", "-", "0", "5">>

ValueSet == { PyStr(<<>>), PyStr(<<"x", " ", "y">>), PyStr(IsoDate), None, NaN }

PairValueSet == { PyStr(<<>>), PyStr(<<"x", " ", "y">>) }

Entry(k, v) == [key |-> k, value |-> v]

\* candidate_data: a dict, its entries in iteration order, its keys distinct
RecordSet ==
    {<<>>}
    \cup { <<Entry(k, v)>> : k \in KeySet, v \in ValueSet }
    \cup { <<Entry(kv[1], kv[3]), Entry(kv[2], kv[4])>> :
             kv \in { q \in KeySet \X KeySet \X PairValueSet \X PairValueSet :
                       /\ q[1] # q[2]
                       /\ Normalize(q[1]) = Normalize(q[2])
                       /\ q[3] # q[4] } }

PhotoPathSet == { None, PyStr(OkPhoto), PyStr(BadPhoto), PyStr(CutPhoto), PyStr(GonePhoto) }

NameSet == { <<"A", " ", "B">> }

SrnoSet == { <<"7">> }

FolderSet == { OutDir }

----------------------------------------------------------------------------
(* State *)

NoCall == [made |-> FALSE]

NoLayout == [made |-> FALSE]

NoBatch == [pc |-> "idle"]

Constructed(template_arg, mapping_arg, font) ==
    LET self == Construct(template_arg, mapping_arg, font)
    IN  /\ template_image = self.template_image
        /\ mapping_data = self.mapping_data
        /\ dpi = self.dpi
        /\ page_width_pts = self.page_width_pts
        /\ page_height_pts = self.page_height_pts
        /\ pil_font = self.pil_font
        /\ call = NoCall
        /\ calls = 0
        /\ disk = {}
        /\ dirs = {OutDir}

filler == <<template_image, mapping_data, dpi, page_width_pts, page_height_pts, pil_font>>

\* a filler built from any upload, any mapping and any font
Init ==
    /\ \E t \in UploadSet, m \in MappingSet, f \in FontSet : Constructed(t, m, f)
    /\ layout = NoLayout
    /\ batch = NoBatch

\* one call of fill_and_save_pdf on the filler
FillAndSavePdfCall ==
    /\ calls < MaxCalls
    /\ calls' = calls + 1
    /\ \E output_folder \in FolderSet, candidate_data \in RecordSet, candidate_srno \in SrnoSet,
       candidate_name \in NameSet, photo_path \in PhotoPathSet :
         \E r \in {FillAndSavePdf(Self, dirs, output_folder, candidate_data, candidate_srno,
                                 candidate_name, photo_path)} :
            /\ call' = [made |-> TRUE, output_folder |-> output_folder,
                        candidate_data |-> candidate_data, candidate_srno |-> candidate_srno,
                        candidate_name |-> candidate_name, photo_path |-> photo_path] @@ r
            /\ template_image' = AfterDraw(template_image, r.filled_image)
            /\ disk' = disk \cup r.written
            /\ UNCHANGED <<mapping_data, dpi, page_width_pts, page_height_pts, pil_font,
                           layout, dirs, batch>>

Next == FillAndSavePdfCall

Spec == Init /\ [][Next]_vars

----------------------------------------------------------------------------
(* The text layout on its own: _draw_text_on_image on any value and box *)

\* the arguments of one call are drawn at the start; the call applies the method
InitLayout ==
    /\ \E f \in FontSet : Constructed(CHOOSE t \in UploadSet : t.mode = "RGB", <<>>, f)
    /\ \E text \in TextSet, x \in BoxXSet, y \in BoxYSet, w \in 1..MaxBoxW, h \in 0..MaxBoxH :
         layout = [made |-> FALSE, text |-> text, x |-> x, y |-> y, w |-> w, h |-> h]
    /\ batch = NoBatch

DrawTextCall ==
    /\ ~layout.made
    /\ layout' = [layout EXCEPT !.made = TRUE]
                    @@ DrawTextOnImage(pil_font, layout.text, layout.x, layout.y, layout.w, layout.h)
    /\ UNCHANGED <<filler, call, calls, disk, dirs, batch>>

NextLayout == DrawTextCall

SpecLayout == InitLayout /\ [][NextLayout]_vars

----------------------------------------------------------------------------
(* Properties of the text layout *)

\* C2: when the value is wider than the box, every line the wrap loop produces
\* is at most as wide as the box, except a line that is exactly one word of the
\* value and is itself wider than the box.
C2_WrappedLinesFitWidth ==
    (layout.made /\ layout.wrapped) =>
        \A i \in 1..Len(layout.lines) :
            \/ TextWidth(pil_font, layout.lines[i]) <= layout.w
            \/ \E k \in 1..Len(Split(layout.text)) : Split(layout.text)[k] = layout.lines[i]

\* a wrapped value with a line of several words and a line of one too-wide word
C2_Witness ==
    /\ layout.made
    /\ layout.wrapped
    /\ \E i \in 1..Len(layout.lines) : Len(Split(layout.lines[i])) >= 2
    /\ \E i \in 1..Len(layout.lines) :
         /\ Len(Split(layout.lines[i])) = 1
         /\ TextWidth(pil_font, layout.lines[i]) > layout.w

\* C3: a wrapped value of N >= 2 lines in a box whose height fits only N-1
\* lines, (N-1)*line_height <= h < N*line_height, has exactly N-1 lines drawn.
C3_DropsExactlyOneLine ==
    (/\ layout.made
     /\ layout.wrapped
     /\ Len(layout.lines) >= 2
     /\ (Len(layout.lines) - 1) * layout.line_height <= layout.h
     /\ layout.h < Len(layout.lines) * layout.line_height)
        => Len(layout.ops) = Len(layout.lines) - 1

----------------------------------------------------------------------------
(* Properties of fill_and_save_pdf *)

\* C1: after any sequence of calls the filler's template is pixel-identical to
\* what it was after construction; the image a call renders has the template's
\* width and height and holds the drawing of that call's candidate only.
C1_TemplateNeverMutated ==
    /\ [][Pixels(template_image') = Pixels(template_image)]_vars
    /\ [](call.made =>
            /\ call.filled_image.width = template_image.width
            /\ call.filled_image.height = template_image.height
            /\ call.filled_image.ops =
                 Flatten(RenderFields(pil_font, mapping_data, call.candidate_data,
                                      call.photo_path)))

\* a second call on the same filler that drew something, the template untouched
C1_Witness ==
    /\ calls = 2
    /\ call.made
    /\ call.filled_image.ops # <<>>
    /\ template_image.ops = <<>>

\* the failures of the photo the claim C4 lists: no path, no such file, a file
\* that does not open, a file that does not resize
PhotoUnavailable(photo_path) ==
    \/ ~Truthy(photo_path)
    \/ ~PathExists(photo_path.s)
    \/ OpenRaises(photo_path.s)
    \/ ResizeRaises(photo_path.s)

\* C4: for a field named "photo" (in any case), when the photo is unavailable
\* nothing at all is drawn in its box, whatever the record contains.
C4_MissingPhotoDrawsNothing ==
    call.made =>
        \A i \in 1..Len(mapping_data) :
            (Lower(mapping_data[i].name) = PhotoName /\ PhotoUnavailable(call.photo_path))
                => call.field_ops[i] = <<>>

\* C6: a call with an existing, writable output folder completes and writes
\* exactly one file, the PDF at the path it returns,
\* <output_folder>/<srno>_<name with blanks as underscores>_filled.pdf.
C6_WritesExactlyOnePdf ==
    (call.made /\ call.output_folder \in dirs) =>
        LET path == PathJoin(call.output_folder,
                             call.candidate_srno \o <<"_">>
                                \o Replace(call.candidate_name, " ", "_") \o FilledSuffix)
        IN  /\ call.outcome = "returned"
            /\ call.result = PyStr(path)
            /\ call.written = {path}

\* C7: the call emits one page of (W*72/300, H*72/300) points for a W x H
\* template, of the image's aspect ratio, with the image drawn at (0,0) over
\* the whole page; 595.2 x 841.92 points for 2480 x 3508 pixels.
C7_NativeDpiPage ==
    call.made =>
        /\ call.pdf # None
        /\ call.pdf.pagesize = <<Frac(template_image.width * 72, 300),
                                 Frac(template_image.height * 72, 300)>>
        /\ call.pdf.pagesize[1].num * template_image.height * call.pdf.pagesize[2].den
             = call.pdf.pagesize[2].num * template_image.width * call.pdf.pagesize[1].den
        /\ call.pdf.image.x = 0
        /\ call.pdf.image.y = 0
        /\ call.pdf.image.width = call.pdf.pagesize[1]
        /\ call.pdf.image.height = call.pdf.pagesize[2]
        /\ (template_image.width = 2480 /\ template_image.height = 3508)
             => call.pdf.pagesize = <<Frac(5952, 10), Frac(84192, 100)>>

\* the positions of the record keys whose normalization equals the field's
MatchingKeys(candidate_data, field_name) ==
    { j \in 1..Len(candidate_data) :
        Replace(Lower(candidate_data[j].key), "_", " ") = Replace(Lower(field_name), "_", " ") }

SetMin(S) == CHOOSE m \in S : \A n \in S : m <= n

\* C8: a text field is drawn with the value of the first record key, in the
\* record's order, whose normalization equals the field's; later keys of the
\* same normalization are not used; with no such key nothing is drawn.
C8_FirstMatchWins ==
    call.made =>
        \A i \in 1..Len(mapping_data) :
            LET field == mapping_data[i]
                m == MatchingKeys(call.candidate_data, field.name)
                text == Str(call.candidate_data[SetMin(m)].value)
            IN  ~IsPhotoBranch(field, call.photo_path) =>
                    IF m = {} \/ text = <<>>
                    THEN call.field_ops[i] = <<>>
                    ELSE call.field_ops[i] =
                           DrawTextOnImage(pil_font, text, field.x, field.y, field.w, field.h).ops

\* a text field with two record keys of its normalization and different
\* values, of which something was drawn
C8_Witness ==
    /\ call.made
    /\ \E i \in 1..Len(mapping_data) :
         LET m == MatchingKeys(call.candidate_data, mapping_data[i].name)
         IN  /\ ~IsPhotoBranch(mapping_data[i], call.photo_path)
             /\ Cardinality(m) = 2
             /\ \E j, k \in m : call.candidate_data[j].value # call.candidate_data[k].value
             /\ call.field_ops[i] # <<>>

\* the date-like field names: the normalized name contains one of the patterns
DateLike(field_name) ==
    LET n == Replace(Lower(field_name), "_", " ")
    IN  \/ IsSubstr(<<"d", "a", "t", "e", " ", "o", "f", " ", "b", "i", "r", "t", "h">>, n)
        \/ IsSubstr(<<"d", "o", "b">>, n)
        \/ IsSubstr(<<"t", "e", "d">>, n)
        \/ IsSubstr(<<"t", "s", "d">>, n)

DmyDate == <<"0", "5", "/", "0", "3", "/", "2", "0", "2", "4">>

\* C9: a date-like field whose raw value is "2024-03-05" is drawn as the text
\* "05/03/2024".
C9_DateRenderedDayMonthYear ==
    call.made =>
        \A i \in 1..Len(mapping_data) :
            LET field == mapping_data[i]
                m == MatchingKeys(call.candidate_data, field.name)
            IN  (/\ DateLike(field.name)
                 /\ m # {}
                 /\ call.candidate_data[SetMin(m)].value = PyStr(IsoDate))
                    => call.field_ops[i] =
                         DrawTextOnImage(pil_font, DmyDate, field.x, field.y, field.w, field.h).ops

\* a raw value a date parse rejects or has nothing to parse: empty, None, an
\* empty spreadsheet cell, or a string that is no date
NoDate(value) ==
    \/ value.t \in {"None", "float"}
    \/ value.t = "str" /\ value.s # IsoDate

\* C10: a date-like field whose matched raw value is empty, null or not a date
\* has nothing drawn.
C10_NoDateDrawsNothing ==
    call.made =>
        \A i \in 1..Len(mapping_data) :
            LET field == mapping_data[i]
                m == MatchingKeys(call.candidate_data, field.name)
            IN  (/\ DateLike(field.name)
                 /\ m # {}
                 /\ NoDate(call.candidate_data[SetMin(m)].value))
                    => call.field_ops[i] = <<>>

----------------------------------------------------------------------------
(* The batch loop of Start Processing (app.py) *)

ColSrNo == <<"S", "r", "N", "o">>

ColSlNo == <<"S", "l", " ", "N", "o", ".">>

ColSNo == <<"S", "N", "o">>

ColSerial == <<"S", "e", "r", "i", "a", "l">>

ColName == <<"N", "a", "m", "e">>

ColDob == <<"D", "O", "B">>

\* the columns tried for the serial number, in order
SrnoColumns == <<ColSrNo, ColSlNo, ColSNo, ColSerial>>

\* col in row.index
HasKey(row, k) == \E j \in 1..Len(row) : row[j].key = k

\* row[col]
RowValue(row, k) == row[CHOOSE j \in 1..Len(row) : row[j].key = k].value

\* s.split('.')[0]
RECURSIVE BeforeDot(_)
BeforeDot(s) ==
    IF s = <<>> \/ Head(s) = "." THEN <<>> ELSE <<Head(s)>> \o BeforeDot(Tail(s))

\* the auto-detection of the serial number: candidate_srno, or None
RECURSIVE SrnoFrom(_, _)
SrnoFrom(row, cols) ==
    IF cols = <<>> THEN None
    ELSE IF HasKey(row, Head(cols)) THEN PyStr(BeforeDot(Str(RowValue(row, Head(cols)))))
    ELSE SrnoFrom(row, Tail(cols))

CandidatePrefix == <<"C", "a", "n", "d", "i", "d", "a", "t", "e", "_">>

\* row.get('Name', f"Candidate_{candidate_srno}")
NameForFolder(row, candidate_srno) ==
    IF HasKey(row, ColName) THEN Str(RowValue(row, ColName)) ELSE CandidatePrefix \o candidate_srno

\* s.endswith(suffix)
EndsWith(s, suffix) ==
    Len(s) >= Len(suffix) /\ SubSeq(s, Len(s) - Len(suffix) + 1, Len(s)) = suffix

\* file.lower().endswith(('.jpg', '.jpeg', '.png'))
HasPhotoExt(file) ==
    \/ EndsWith(Lower(file), <<".", "j", "p", "g">>)
    \/ EndsWith(Lower(file), <<".", "j", "p", "e", "g">>)
    \/ EndsWith(Lower(file), <<".", "p", "n", "g">>)

\* the matching of a photo file to a candidate by serial number or name
PhotoMatches(entry, candidate_srno, name) ==
    /\ HasPhotoExt(entry.file)
    /\ \/ IsSubstr(candidate_srno, entry.root)
       \/ IsSubstr(candidate_srno, entry.file)
       \/ IsSubstr(Lower(name), Lower(entry.root))
       \/ IsSubstr(Lower(name), Lower(entry.file))

\* os.walk(photo_base_dir): the files below the directory, in order
Walk(photo_base_dir) ==
    LET Below(entry) == entry.root = photo_base_dir
    IN  SelectSeq(PhotoFiles, Below)

\* the photo search: the first matching file, or None
RECURSIVE FindPhoto(_, _, _)
FindPhoto(files, candidate_srno, name) ==
    IF files = <<>> THEN None
    ELSE IF PhotoMatches(Head(files), candidate_srno, name) THEN Head(files)
    ELSE FindPhoto(Tail(files), candidate_srno, name)

\* os.path.basename(path)
RECURSIVE Basename(_)
Basename(path) ==
    IF path = <<>> \/ path[Len(path)] = "/" THEN <<>>
    ELSE Append(Basename(SubSeq(path, 1, Len(path) - 1)), path[Len(path)])

\* run_output_dir
RunOutputDir == PathJoin(OutDir, <<"r">>)

\* the report entries
SkippedEntry(row) ==
    [SrNo |-> <<"N", "/", "A">>,
     Name |-> IF HasKey(row, ColName) THEN Str(RowValue(row, ColName)) ELSE <<"N", "/", "A">>,
     Status |-> "Skipped (No SrNo)", OutputFile |-> <<>>]

NoPhotoEntry(candidate_srno, name) ==
    [SrNo |-> candidate_srno, Name |-> name, Status |-> "Processed (No Photo)",
     OutputFile |-> candidate_srno \o <<"_">> \o name \o FilledSuffix]

SuccessEntry(candidate_srno, name, photo_filename, final_pdf_path) ==
    [SrNo |-> candidate_srno, Name |-> name, Status |-> "Processed Successfully",
     PhotoFound |-> photo_filename, OutputFile |-> Basename(final_pdf_path)]

\* the data frames: every row of a frame has the same columns
ColumnLists == { <<ColSrNo, ColName>>, <<ColName>>, <<ColSNo>>, <<ColSerial, ColName, ColDob>> }

ColValues(col) ==
    IF col \in {ColSrNo, ColSlNo, ColSNo, ColSerial}
    THEN { PyInt(7), PyStr(<<"8", ".", "0">>) }
    ELSE IF col = ColName THEN { PyStr(<<"A", " ", "B">>), PyStr(<<"C">>) }
    ELSE { PyStr(IsoDate) }

AllColValues == UNION { ColValues(col) : col \in {ColSrNo, ColName, ColDob} }

\* row.to_dict() of the rows of a frame with the given columns
RowsFor(cols) ==
    { [i \in 1..Len(cols) |-> Entry(cols[i], vs[i])] :
        vs \in { q \in [1..Len(cols) -> AllColValues] :
                   \A i \in 1..Len(cols) : q[i] \in ColValues(cols[i]) } }

DfSet == UNION { UNION { [1..n -> RowsFor(cols)] : n \in 0..MaxRows } : cols \in ColumnLists }

BaseDirSet == { <<"u">>, <<"v">>, <<"e">> }

\* the state at the entry of the loop: the filler built, nothing processed
InitBatch ==
    /\ \E m \in MappingSet :
         Constructed(CHOOSE t \in UploadSet : t.mode = "RGB", m,
                     CHOOSE f \in FontSet : f.char_w = 1)
    /\ layout = NoLayout
    /\ \E rows \in DfSet, base \in BaseDirSet :
         batch = [pc |-> "loop", rows |-> rows, photo_base_dir |-> base, index |-> 0,
                  report_data |-> <<>>, processed_count |-> 0, exception |-> "",
                  report_written |-> FALSE, archived |-> FALSE]

\* one iteration of the loop over candidate_df.iterrows()
ProcessRow ==
    /\ batch.pc = "loop"
    /\ batch.index < Len(batch.rows)
    /\ LET row == batch.rows[batch.index + 1]
           srno == SrnoFrom(row, SrnoColumns)
       IN  IF ~Truthy(srno)
           THEN /\ batch' = [batch EXCEPT !.report_data = Append(@, SkippedEntry(row)),
                                          !.index = @ + 1]
                /\ UNCHANGED <<filler, layout, call, calls, disk, dirs>>
           ELSE LET candidate_srno == srno.s
                    name == NameForFolder(row, candidate_srno)
                    folder == PathJoin(RunOutputDir, candidate_srno \o <<" ">> \o name)
                    photo == FindPhoto(Walk(batch.photo_base_dir), candidate_srno, name)
                    photo_found == photo # None
                    photo_path == IF photo_found THEN PyStr(PathJoin(photo.root, photo.file))
                                  ELSE None
                    copied == IF photo_found THEN {PathJoin(folder, photo.file)} ELSE {}
                    report_before == IF photo_found THEN batch.report_data
                                     ELSE Append(batch.report_data,
                                                 NoPhotoEntry(candidate_srno, name))
                    r == FillAndSavePdf(Self, dirs \cup {folder}, folder, row,
                                        candidate_srno, name, photo_path)
                IN  /\ dirs' = dirs \cup {folder}
                    /\ disk' = disk \cup copied \cup r.written
                    /\ call' = [made |-> TRUE, output_folder |-> folder,
                                candidate_data |-> row, candidate_srno |-> candidate_srno,
                                candidate_name |-> name, photo_path |-> photo_path] @@ r
                    /\ calls' = calls + 1
                    /\ template_image' = AfterDraw(template_image, r.filled_image)
                    /\ UNCHANGED <<mapping_data, dpi, page_width_pts, page_height_pts,
                                   pil_font, layout>>
                    /\ IF r.outcome = "raised"
                       THEN batch' = [batch EXCEPT !.pc = "aborted",
                                                   !.exception = r.exception,
                                                   !.report_data = report_before]
                       ELSE batch' = [batch EXCEPT
                                        !.report_data =
                                            IF photo_found
                                            THEN Append(report_before,
                                                        SuccessEntry(candidate_srno, name,
                                                                     photo.file, r.result.s))
                                            ELSE report_before,
                                        !.processed_count = @ + 1,
                                        !.index = @ + 1]

ReportPath == PathJoin(RunOutputDir, <<"p", "r", "o", "c", "e", "s", "s", "i", "n", "g", "_",
                                       "r", "e", "p", "o", "r", "t", ".", "c", "s", "v">>)

ZipPath == PathJoin(OutDir, <<"f", "i", "n", "a", "l", ".", "z", "i", "p">>)

\* after the loop: the report is written and the run directory archived
FinishBatch ==
    /\ batch.pc = "loop"
    /\ batch.index = Len(batch.rows)
    /\ batch' = [batch EXCEPT !.pc = "done", !.report_written = TRUE, !.archived = TRUE]
    /\ disk' = disk \cup {ReportPath, ZipPath}
    /\ UNCHANGED <<filler, layout, call, calls, dirs>>

NextBatch == ProcessRow \/ FinishBatch

SpecBatch == InitBatch /\ [][NextBatch]_vars

\* C5: a failure of fill_and_save_pdf for one candidate does not end the batch:
\* whenever the run has stopped, every row was processed, the report was
\* generated and the output archived.
C5_BatchSurvivesFailure ==
    batch.pc \in {"done", "aborted"} =>
        /\ batch.index = Len(batch.rows)
        /\ batch.report_written
        /\ batch.archived

----------------------------------------------------------------------------
(* Further properties of the text layout *)

\* C11: a value no wider than the box is drawn as one line whose left edge is
\* within one pixel of x + (w - textWidth)/2 and is the same for every box
\* height; the height moves only the top edge, to y + (h - textHeight)/2.
C11_SingleLineCentred ==
    (layout.made /\ ~layout.wrapped) =>
        LET text_width == TextWidth(pil_font, layout.text)
            text_height == TextHeight(pil_font, layout.text)
        IN  /\ Len(layout.ops) = 1
            /\ layout.ops[1].text = layout.text
            /\ 2 * layout.ops[1].x - (2 * layout.x + layout.w - text_width) \in {-1, 0, 1}
            /\ 2 * layout.ops[1].y - (2 * layout.y + layout.h - text_height) \in {-1, 0, 1}
            /\ \A h \in 0..MaxBoxH :
                 DrawTextOnImage(pil_font, layout.text, layout.x, layout.y, layout.w, h).ops[1].x
                    = layout.ops[1].x

\* a one-line value with an odd slack of three pixels or more, drawn to the
\* right of the box's left edge
C11_Witness ==
    /\ layout.made
    /\ ~layout.wrapped
    /\ (layout.w - TextWidth(pil_font, layout.text)) % 2 = 1
    /\ layout.w - TextWidth(pil_font, layout.text) >= 3
    /\ layout.ops[1].x > layout.x

----------------------------------------------------------------------------
(* Further properties of fill_and_save_pdf *)

\* C12: for a "photo" field with box (x, y, w, h) and a readable photo of any
\* size, the only thing drawn for the field is the photo, resized to exactly
\* w x h pixels and pasted with its top-left corner at (x, y).
C12_PhotoFillsBox ==
    call.made =>
        \A i \in 1..Len(mapping_data) :
            LET field == mapping_data[i]
            IN  (/\ Lower(field.name) = PhotoName
                 /\ ~PhotoUnavailable(call.photo_path))
                    => call.field_ops[i] =
                         << [kind |-> "paste", x |-> field.x, y |-> field.y,
                             w |-> field.w, h |-> field.h, photo |-> call.photo_path.s] >>

\* a photo pasted into a box of another aspect ratio than the photo's
C12_Witness ==
    /\ call.made
    /\ \E i \in 1..Len(mapping_data) :
         /\ Lower(mapping_data[i].name) = PhotoName
         /\ ~PhotoUnavailable(call.photo_path)
         /\ PhotoEntry(call.photo_path.s).width * mapping_data[i].h
              # PhotoEntry(call.photo_path.s).height * mapping_data[i].w
         /\ call.field_ops[i] # <<>>
         /\ call.filled_image.ops # <<>>

\* C13: with an empty fields table, whatever the record and the photo path, the
\* image the call renders is pixel-identical to the template.
C13_EmptyMappingKeepsTemplate ==
    (call.made /\ mapping_data = <<>>) =>
        Pixels(call.filled_image) = Pixels(template_image)

\* a call on a filler with no fields, with a record and a photo at hand
C13_Witness ==
    /\ call.made
    /\ mapping_data = <<>>
    /\ call.candidate_data # <<>>
    /\ ~PhotoUnavailable(call.photo_path)

----------------------------------------------------------------------------
(* Further properties of the text layout and of the batch loop *)

\* C14: every line drawn for a box (x, y, w, h), on one line or wrapped, lies
\* vertically inside the box: its top edge is at or below y and its bottom
\* edge, one line height further down, is at or above y + h.
C14_LinesInsideBox ==
    layout.made =>
        \A k \in 1..Len(layout.ops) :
            /\ layout.ops[k].y >= layout.y
            /\ layout.ops[k].y + layout.line_height <= layout.y + layout.h

\* C15: the wrap loop never commits an empty line: every element of the line
\* list holds at least one word.
C15_NoEmptyLine ==
    (layout.made /\ layout.wrapped) =>
        \A i \in 1..Len(layout.lines) : layout.lines[i] # <<>>

\* the rows of the data frame that have a serial number
RowsWithSrno == { k \in 1..Len(batch.rows) : Truthy(SrnoFrom(batch.rows[k], SrnoColumns)) }

\* the report entries of candidates with a serial number
EntriesWithSrno == { j \in 1..Len(batch.report_data) : batch.report_data[j].SrNo # <<"N", "/", "A">> }

\* C16: when the run has ended, every row with a serial number has exactly one
\* report entry, and the entry's Output File is the base name of a PDF that
\* was written for the candidate.
C16_ReportNamesWrittenPdf ==
    batch.pc \in {"done", "aborted"} =>
        /\ Cardinality(EntriesWithSrno) = Cardinality(RowsWithSrno)
        /\ \A j \in EntriesWithSrno :
             \E path \in disk : Basename(path) = batch.report_data[j].OutputFile

====
